---- MODULE Spec2Model ----
(***************************************************************************)
(* Model of network_mount_monitoring: MountControl (mount_control.py),     *)
(* DbusMonitoring (dbus_monitoring.py), JournalctlMonitoring               *)
(* (journal_monitoring.py).  Every coroutine is cut at its awaits: the     *)
(* code between two awaits is one atomic step of the asyncio loop.         *)
(***************************************************************************)
EXTENDS Integers, Sequences, FiniteSets, Bags, TLC

(* ------------------------------ bounds --------------------------------- *)

\* number of configured mount names (NETWORK_MOUNT_NAMES)
NumMounts == 2

\* number of network devices that send StateChanged signals
NumDevices == 2

\* number of restart_all_mounts / stop_mounts coroutines in flight at once
MaxTasks == 2

\* number of journal entries that can wait to be read
MaxPending == 2

(* --------------------------- MountControl ------------------------------ *)

\* names a configuration can list (config.NETWORK_MOUNT_NAMES is not in the sources)
MountNames == <<"data", "media", "nas", "backup">>

\* self.list_of_mount: the configured names, in list order
list_of_mount == SubSeq(MountNames, 1, NumMounts)

\* the automount unit in place of the mount unit
MountUnit_Automount(name) == <<name, ".automount">>

\* f"{name}.mount"
MountUnit(name) == <<name, ".mount">>

\* f"{name}.automount"
AutomountUnit(name) == <<name, ".automount">>

\* the two fixed unit names restart_all_mounts stops
NetworkOnlineTarget == <<"network-online", ".target">>

WaitOnlineService == <<"NetworkManager-wait-online", ".service">>

\* the units whose ActiveState the model tracks
ManagedUnits ==
    {MountUnit(list_of_mount[i]) : i \in 1..NumMounts}
        \cup {AutomountUnit(list_of_mount[i]) : i \in 1..NumMounts}

\* ActiveState values get_unit_status can return
ActiveStates == {"active", "inactive", "failed"}

\* NetworkManagerState values (sdbus_async.networkmanager.enums)
NetworkManagerState ==
    [UNKNOWN |-> 0, ASLEEP |-> 10, DISCONNECTED |-> 20, DISCONNECTING |-> 30,
     CONNECTING |-> 40, CONNECTED_LOCAL |-> 50, CONNECTED_SITE |-> 60, GLOBAL |-> 70]

\* DeviceState values (sdbus_async.networkmanager.enums)
DeviceState ==
    [UNKNOWN |-> 0, UNMANAGED |-> 10, UNAVAILABLE |-> 20, DISCONNECTED |-> 30,
     PREPARE |-> 40, CONFIG |-> 50, NEED_AUTH |-> 60, IP_CONFIG |-> 70,
     IP_CHECK |-> 80, SECONDARIES |-> 90, ACTIVATED |-> 100,
     DEACTIVATING |-> 110, FAILED |-> 120]

VARIABLES
    unit_state,                 \* systemd: ActiveState of every managed unit
    systemd_manager_interface,  \* MountControl.systemd_manager_interface: "unset" | "set"
    tasks,                      \* the bag of running restart_all_mounts / stop_mounts coroutines
    invocation,                 \* the direct caller's running invocation and the calls it attempted
    finished,                   \* the direct caller's last completed invocation
    dbus_pc,                    \* where DbusMonitoring.start is
    device_list,                \* DbusMonitoring.device_list: device_id -> bool
    current_global_state,       \* DbusMonitoring.current_global_state: <<>> (None) | <<bool>>
    dev_seen,                   \* per device, what its last StateChanged signal said
    glob_seen,                  \* what the last valid global StateChanged signal said
    run_stops,                  \* stop_all invocations of the global handler since the last online signal
    handlers,                   \* what DbusMonitoring was built with: "mount_control" | "mock"
    ev,                         \* with mock handlers: the last message delivered, the state it met and what it invoked
    journal_pc,                 \* where JournalctlMonitoring.start is
    journal_log,                \* journal entries the reader has not passed yet, oldest first
    batch_stops,                \* stop_handler invocations of the current drain ("for entry in")
    jev,                        \* the entries start() skipped, then the last entry the reader passed and whether it invoked stop_handler
    main_pc,                    \* where main() is: "off" when the model leaves main out
    bus_connected,              \* the system bus connection is open
    dbus_running,               \* DbusMonitoring.running
    journal_running             \* JournalctlMonitoring.running

engine_vars == <<unit_state, systemd_manager_interface, tasks, invocation, finished>>

dbus_vars ==
    <<dbus_pc, device_list, current_global_state, dev_seen, glob_seen, run_stops, handlers, ev>>

journal_vars == <<journal_pc, journal_log, batch_stops, jev>>

main_vars == <<main_pc, bus_connected, dbus_running, journal_running>>

vars == <<engine_vars, dbus_vars, journal_vars, main_vars>>

\* main() is not modelled, or is awaiting asyncio.gather: the monitor tasks
\* have not been cancelled
LoopRuns == main_pc \in {"off", "gather"}

\* main() is left out: the bus stays connected and the running flags stay as
\* the constructors set them
MainOff ==
    /\ main_pc = "off"
    /\ bus_connected = TRUE
    /\ dbus_running = TRUE
    /\ journal_running = TRUE

\* the coroutine frame of a fresh restart_all_mounts / stop_mounts call:
\* automount_to_restart = [] and the first loop at its first name
NewFrame(proc, owner) ==
    [proc |-> proc,
     owner |-> owner,
     pc |-> IF proc = "restart_all_mounts" THEN "mount_status" ELSE "stop_mount",
     idx |-> 1,
     automount_to_restart |-> <<>>,
     ridx |-> 1]

\* the remote call the frame is suspended on
NextCall(f) ==
    CASE f.pc = "mount_status" ->
            [op |-> "status", unit |-> MountUnit(list_of_mount[f.idx])]
      [] f.pc = "mount_reset" ->
            [op |-> "reset_failed", unit |-> MountUnit(list_of_mount[f.idx])]
      [] f.pc = "automount_status" ->
            [op |-> "status", unit |-> AutomountUnit(list_of_mount[f.idx])]
      [] f.pc = "stop_target" ->
            [op |-> "stop", unit |-> NetworkOnlineTarget]
      [] f.pc = "stop_wait_online" ->
            [op |-> "stop", unit |-> WaitOnlineService]
      [] f.pc = "automount_reset" ->
            [op |-> "reset_failed", unit |-> AutomountUnit(f.automount_to_restart[f.ridx])]
      [] f.pc = "automount_start" ->
            [op |-> "start", unit |-> AutomountUnit(f.automount_to_restart[f.ridx])]
      [] f.pc = "stop_mount" ->
            [op |-> "stop", unit |-> MountUnit(list_of_mount[f.idx])]

\* what a successful call does to the unit states (the service manager)
Effect(c, us) ==
    IF c.unit \notin DOMAIN us THEN us
    ELSE CASE c.op = "status" -> us
           [] c.op = "reset_failed" ->
                IF us[c.unit] = "failed" THEN [us EXCEPT ![c.unit] = "inactive"] ELSE us
           [] c.op = "stop" ->
                IF us[c.unit] = "active" THEN [us EXCEPT ![c.unit] = "inactive"] ELSE us
           [] c.op = "start" -> [us EXCEPT ![c.unit] = "active"]

\* line 122 written as "not active": a stopped mount is reset as well
MountNeedsReset_NotActive(active_state) == active_state # "active"

\* the condition of line 122
MountNeedsReset(active_state) == active_state = "failed"

\* line 127 testing for the wrong state: an active automount is restarted
AutomountNeedsRestart_NotInactive(active_state) == active_state # "inactive"

\* the condition of line 127
AutomountNeedsRestart(active_state) == active_state # "active"

\* lines 134-135 left out: the automounts are restarted with the network
\* targets still up
AfterCollect_NoTargetStop(f, to_restart) ==
    IF to_restart # <<>>
    THEN [f EXCEPT !.pc = "automount_reset", !.ridx = 1,
                   !.automount_to_restart = to_restart]
    ELSE [f EXCEPT !.pc = "return", !.automount_to_restart = to_restart]

\* where restart_all_mounts goes once the first loop is exhausted (line 133)
AfterCollect(f, to_restart) ==
    IF to_restart # <<>>
    THEN [f EXCEPT !.pc = "stop_target", !.automount_to_restart = to_restart]
    ELSE [f EXCEPT !.pc = "return", !.automount_to_restart = to_restart]

\* a status read added after the last start: the last automount is read
\* again before the function returns
AfterRestart_ReadAgain(f) ==
    [f EXCEPT !.pc = "automount_status", !.idx = Len(list_of_mount),
              !.automount_to_restart = <<>>]

\* the second loop is exhausted (line 136): the function returns
AfterRestart(f) == [f EXCEPT !.pc = "return"]

\* the frame after its pending call has returned; active_state is what a
\* status call read
Advance(f, active_state) ==
    CASE f.pc = "mount_status" ->
            IF MountNeedsReset(active_state)
            THEN [f EXCEPT !.pc = "mount_reset"]
            ELSE [f EXCEPT !.pc = "automount_status"]
      [] f.pc = "mount_reset" -> [f EXCEPT !.pc = "automount_status"]
      [] f.pc = "automount_status" ->
            LET to_restart ==
                    IF AutomountNeedsRestart(active_state)
                    THEN Append(f.automount_to_restart, list_of_mount[f.idx])
                    ELSE f.automount_to_restart
            IN  IF f.idx < Len(list_of_mount)
                THEN [f EXCEPT !.pc = "mount_status", !.idx = f.idx + 1,
                               !.automount_to_restart = to_restart]
                ELSE AfterCollect(f, to_restart)
      [] f.pc = "stop_target" -> [f EXCEPT !.pc = "stop_wait_online"]
      [] f.pc = "stop_wait_online" -> [f EXCEPT !.pc = "automount_reset", !.ridx = 1]
      [] f.pc = "automount_reset" -> [f EXCEPT !.pc = "automount_start"]
      [] f.pc = "automount_start" ->
            IF f.ridx < Len(f.automount_to_restart)
            THEN [f EXCEPT !.pc = "automount_reset", !.ridx = f.ridx + 1]
            ELSE AfterRestart(f)
      [] f.pc = "stop_mount" ->
            IF f.idx < Len(list_of_mount)
            THEN [f EXCEPT !.idx = f.idx + 1]
            ELSE [f EXCEPT !.pc = "return"]

\* a busy guard: the new coroutine is dropped when another one is running
Spawn_IfIdle(bag, f) == IF bag = EmptyBag THEN SetToBag({f}) ELSE bag

\* the bag of tasks with one more coroutine f
Spawn(bag, f) == bag (+) SetToBag({f})

\* the bag of tasks once coroutine f has ended
Drop(bag, f) == bag (-) SetToBag({f})

\* the bag of tasks once coroutine f has moved on to g
Resume(bag, f, g) == Spawn(Drop(bag, f), g)

\* the direct caller is between two invocations
NoInvocation == [proc |-> "none", pre |-> <<>>, calls |-> <<>>]

\* one attempted unit call as the caller's recorder sees it: ok is FALSE when
\* the call raised, read is the ActiveState a successful status call returned
CallRecord(c, ok, read) == [op |-> c.op, unit |-> c.unit, ok |-> ok, read |-> read]

\* what the caller keeps of the invocation before the last one
Summary(run) ==
    [proc |-> run.proc, outcome |-> run.outcome,
     ops |-> {run.calls[j].op : j \in 1..Len(run.calls)}]

\* the caller's record of a completed invocation: the unit states it began
\* in, the calls it attempted, how it ended, and which invocation preceded it
Completed(proc, pre, log, outcome, before) ==
    [proc |-> proc, pre |-> pre, calls |-> log, outcome |-> outcome,
     prev |-> Summary(before)]

\* the direct caller has completed no invocation yet
NoRun == [proc |-> "none", pre |-> <<>>, calls |-> <<>>, outcome |-> "none",
          prev |-> [proc |-> "none", outcome |-> "none", ops |-> {}]]

\* what the awaiting side sees when the coroutine of frame f ends with
\* outcome "returned" or "raised", log being the calls it attempted:
\* the journal loop resumes its for loop or dies with the exception, the
\* direct caller gets the result, a spawned task's outcome is observed by nobody
Finish(f, outcome, log) ==
    /\ journal_pc' =
            IF f.owner = "journal"
            THEN (IF outcome = "returned" THEN "drain" ELSE "crashed")
            ELSE journal_pc
    /\ invocation' = IF f.owner = "caller" THEN NoInvocation ELSE invocation
    /\ finished' =
            IF f.owner = "caller"
            THEN Completed(f.proc, invocation.pre, log, outcome, finished)
            ELSE finished

\* MountControl.__async_init__: the task the constructor spawned sets the interface
AsyncInit ==
    /\ systemd_manager_interface = "unset"
    /\ main_pc # "closed"
    /\ systemd_manager_interface' = "set"
    /\ UNCHANGED <<unit_state, tasks, invocation, finished, dbus_vars, journal_vars,
                   main_vars>>

\* the pending remote call of coroutine f returns: the service manager has applied
\* it, and the coroutine runs on to its next await or to its end
CallReturns(f) ==
    /\ BagIn(f, tasks)
    /\ f.pc # "created"
    /\ bus_connected
    /\ f.owner = "journal" => LoopRuns
    /\ LET c == NextCall(f)
           read == IF c.op = "status" THEN unit_state[c.unit] ELSE "none"
           g == Advance(f, read)
           log == Append(invocation.calls, CallRecord(c, TRUE, read))
       IN  /\ unit_state' = Effect(c, unit_state)
           /\ IF g.pc = "return"
              THEN /\ tasks' = Drop(tasks, f)
                   /\ Finish(f, "returned", log)
              ELSE /\ tasks' = Resume(tasks, f, g)
                   /\ invocation' =
                        IF f.owner = "caller"
                        THEN [invocation EXCEPT !.calls = log]
                        ELSE invocation
                   /\ UNCHANGED <<finished, journal_pc>>
    /\ UNCHANGED <<systemd_manager_interface, dbus_vars, journal_log, batch_stops, jev,
                   main_vars>>

\* the pending remote call of coroutine f fails: the await raises, nothing in
\* restart_all_mounts or stop_mounts catches it, the coroutine ends
CallRaises(f) ==
    /\ BagIn(f, tasks)
    /\ f.pc # "created"
    /\ f.owner = "journal" => LoopRuns
    /\ LET c == NextCall(f)
           log == Append(invocation.calls, CallRecord(c, FALSE, "none"))
       IN  /\ tasks' = Drop(tasks, f)
           /\ Finish(f, "raised", log)
    /\ UNCHANGED <<unit_state, systemd_manager_interface, dbus_vars,
                   journal_log, batch_stops, jev, main_vars>>

\* a direct caller awaits restart_all_mounts() or stop_mounts(): the coroutine
\* runs to its first remote call, which needs the interface
Invoke(proc) ==
    /\ tasks = EmptyBag
    /\ invocation = NoInvocation
    /\ IF systemd_manager_interface = "set"
       THEN /\ tasks' = Spawn(tasks, NewFrame(proc, "caller"))
            /\ invocation' = [proc |-> proc, pre |-> unit_state, calls |-> <<>>]
            /\ finished' = finished
       ELSE /\ finished' = Completed(proc, unit_state, <<>>, "raised", finished)
            /\ UNCHANGED <<tasks, invocation>>
    /\ UNCHANGED <<unit_state, systemd_manager_interface, dbus_vars, journal_vars,
                   main_vars>>

(* ------------------------- the engine on its own ------------------------ *)

\* the monitors are not running
MonitorsOff ==
    /\ dbus_pc = "off"
    /\ device_list = [x \in {} |-> TRUE]
    /\ current_global_state = <<>>
    /\ dev_seen = [x \in {} |-> TRUE]
    /\ glob_seen = "unknown"
    /\ run_stops = 0
    /\ handlers = "mount_control"
    /\ ev = [kind |-> "none"]
    /\ journal_pc = "off"
    /\ journal_log = <<>>
    /\ batch_stops = 0
    /\ jev = [kind |-> "none"]

\* an initialised MountControl over units in any ActiveState
InitEngine ==
    /\ unit_state \in [ManagedUnits -> ActiveStates]
    /\ systemd_manager_interface = "set"
    /\ tasks = EmptyBag
    /\ invocation = NoInvocation
    /\ finished = NoRun
    /\ MonitorsOff
    /\ MainOff

NextEngine ==
    \/ \E proc \in {"restart_all_mounts", "stop_mounts"} : Invoke(proc)
    \/ \E f \in BagToSet(tasks) : CallReturns(f)
    \/ \E f \in BagToSet(tasks) : CallRaises(f)

SpecEngine == InitEngine /\ [][NextEngine]_vars

(* --------------------------- DbusMonitoring ----------------------------- *)

\* DbusMonitoring.GLOBAL_ONLINE_STATE
GLOBAL_ONLINE_STATE ==
    {NetworkManagerState.CONNECTED_LOCAL, NetworkManagerState.CONNECTED_SITE,
     NetworkManagerState.GLOBAL}

\* DbusMonitoring.DEVICE_ONLINE_STATE
DEVICE_ONLINE_STATE ==
    {DeviceState.ACTIVATED, DeviceState.IP_CHECK, DeviceState.SECONDARIES}

\* the integers NetworkManagerState(state) accepts
NetworkManagerStateValues == {NetworkManagerState[n] : n \in DOMAIN NetworkManagerState}

\* the integers that are members of DeviceState
DeviceStateValues == {DeviceState[n] : n \in DOMAIN DeviceState}

\* global states the model delivers: every online one, some offline ones
\* and one that is not enumerated
GlobalSignalStates ==
    GLOBAL_ONLINE_STATE
        \cup {NetworkManagerState.DISCONNECTED, NetworkManagerState.CONNECTING, 45}

\* device states the model delivers: every online one, some offline ones and
\* one that is not enumerated
DeviceSignalStates ==
    DEVICE_ONLINE_STATE
        \cup {DeviceState.DISCONNECTED, DeviceState.IP_CONFIG, 55}

\* last path segments of the devices' object paths
DeviceIdNames == <<"1", "2", "3", "4">>

DeviceIds == {DeviceIdNames[i] : i \in 1..NumDevices}

\* the StateChanged signal of device d, as the AddMatch rule of
\* listen_dbus_networkmanager_device lets it through
DeviceSignalMessage(d, state) ==
    [message_type |-> "SIGNAL",
     interface |-> "org.freedesktop.NetworkManager.Device",
     member |-> "StateChanged",
     path |-> <<"org", "freedesktop", "NetworkManager", "Devices", d>>,
     body |-> <<state>>]

\* the other messages the bus hands to every message handler: the replies to
\* the program's own method calls, and the global StateChanged signal the
\* proxy interface subscribed to
OtherMessages ==
    {[message_type |-> "METHOD_RETURN", interface |-> "", member |-> "",
      path |-> <<>>, body |-> <<>>]}
    \cup {[message_type |-> "SIGNAL", interface |-> "org.freedesktop.NetworkManager",
           member |-> "StateChanged",
           path |-> <<"org", "freedesktop", "NetworkManager">>,
           body |-> <<state>>] : state \in {NetworkManagerState.CONNECTING,
                                            NetworkManagerState.GLOBAL}}

\* message.path.split("/")[-1]
get_device_id(message) == message.path[Len(message.path)]

\* the filter of lines 156-159
IsDeviceSignal(message) ==
    /\ message.message_type = "SIGNAL"
    /\ message.interface = "org.freedesktop.NetworkManager.Device"

\* lines 162-165 left out: the map is overwritten on every signal
DeviceChanged_Always(dl, device_id, device_state) == TRUE

\* the edge test of lines 162-165
DeviceChanged(dl, device_id, device_state) ==
    device_id \notin DOMAIN dl \/ dl[device_id] # device_state

\* self.device_list[device_id] = device_state
SetDevice(dl, device_id, device_state) ==
    [x \in DOMAIN dl \cup {device_id} |-> IF x = device_id THEN device_state ELSE dl[x]]

\* device_state_changed as a function of the message and the map: the new
\* map and whether restart_handler() is spawned; the handler returns False
device_state_changed(message, dl) ==
    IF IsDeviceSignal(message)
    THEN LET device_id == get_device_id(message)
             device_state == message.body[1] \in DEVICE_ONLINE_STATE
         IN  IF DeviceChanged(dl, device_id, device_state)
             THEN [device_list |-> SetDevice(dl, device_id, device_state),
                   restart |-> device_state, consumed |-> FALSE]
             ELSE [device_list |-> dl, restart |-> FALSE, consumed |-> FALSE]
    ELSE [device_list |-> dl, restart |-> FALSE, consumed |-> FALSE]

\* line 184 left out: the state is overwritten on every signal
GlobalChanged_Always(current, online) == TRUE

\* current_global_state initialised to False instead of None: the unknown
\* state counts as offline
GlobalChanged_UnknownIsOffline(current, online) ==
    IF current = <<>> THEN online ELSE current # <<online>>

\* the edge test of line 184
GlobalChanged(current, online) == current # <<online>>

\* the assignment of line 185 moved behind the await of line 189, which is
\* pending or has failed: an offline state is not recorded
Recorded_OnlineOnly(current, online) == IF online THEN <<online>> ELSE current

\* line 185: the derived boolean is recorded, before stop_handler() is awaited
Recorded(current, online) == <<online>>

\* the global handler coupled to recovery: an edge to online calls the
\* restart handler
GlobalInvokes_RestartWhenOnline(changed, online) ==
    IF ~changed THEN "none" ELSE IF online THEN "restart_all" ELSE "stop_all"

\* lines 184-189: the handler global_state_changed calls, stop_handler on an
\* edge to offline and nothing otherwise
GlobalInvokes(changed, online) ==
    IF changed /\ ~online THEN "stop_all" ELSE "none"

\* what the signals so far say of device d
Seen(seen, d) ==
    IF d \notin DOMAIN seen THEN "unknown" ELSE IF seen[d] THEN "online" ELSE "offline"

\* a created task that has not run yet
NewTask(proc) == [NewFrame(proc, "device") EXCEPT !.pc = "created"]

\* DbusMonitoring.start, lines 65-70: the NetworkManager interface is
\* fetched and global_state_changed subscribed to its StateChanged signal
DbusGetInterface ==
    /\ dbus_pc = "get_interface"
    /\ LoopRuns
    /\ dbus_pc' = "add_match"
    /\ UNCHANGED <<engine_vars, device_list, current_global_state, dev_seen, glob_seen,
                   run_stops, handlers, ev, journal_vars, main_vars>>

\* DbusMonitoring.start, lines 71-76: the match rule is added and
\* device_state_changed installed as a message handler
DbusAddMatch ==
    /\ dbus_pc = "add_match"
    /\ LoopRuns
    /\ dbus_pc' = "listening"
    /\ UNCHANGED <<engine_vars, device_list, current_global_state, dev_seen, glob_seen,
                   run_stops, handlers, ev, journal_vars, main_vars>>

\* a StateChanged signal of device d reaches device_state_changed
DeviceSignal(d, state) ==
    /\ dbus_pc = "listening"
    /\ bus_connected
    /\ BagCardinality(tasks) < MaxTasks
    /\ LET r == device_state_changed(DeviceSignalMessage(d, state), device_list)
           online == state \in DEVICE_ONLINE_STATE
       IN  /\ device_list' = r.device_list
           /\ tasks' = IF r.restart /\ handlers = "mount_control"
                       THEN Spawn(tasks, NewTask("restart_all_mounts"))
                       ELSE tasks
           /\ ev' = IF handlers = "mock"
                    THEN [kind |-> "device", id |-> d, raw |-> state, online |-> online,
                          was |-> Seen(dev_seen, d), before |-> device_list,
                          invoked |-> IF r.restart THEN "restart_all" ELSE "none"]
                    ELSE ev
           /\ dev_seen' = SetDevice(dev_seen, d, online)
    /\ UNCHANGED <<unit_state, systemd_manager_interface, invocation, finished, dbus_pc,
                   current_global_state, glob_seen, run_stops, handlers, journal_vars,
                   main_vars>>

\* a message that is no device signal reaches device_state_changed
OtherMessage(message) ==
    /\ dbus_pc = "listening"
    /\ bus_connected
    /\ LET r == device_state_changed(message, device_list)
       IN  /\ device_list' = r.device_list
           /\ tasks' = IF r.restart /\ handlers = "mount_control"
                       THEN Spawn(tasks, NewTask("restart_all_mounts"))
                       ELSE tasks
           /\ ev' = IF handlers = "mock"
                    THEN [kind |-> "other", message |-> message, before |-> device_list,
                          consumed |-> r.consumed,
                          invoked |-> IF r.restart THEN "restart_all" ELSE "none"]
                    ELSE ev
    /\ UNCHANGED <<unit_state, systemd_manager_interface, invocation, finished, dbus_pc,
                   current_global_state, dev_seen, glob_seen, run_stops, handlers,
                   journal_vars, main_vars>>

\* the task a device signal created gets to run: restart_all_mounts runs to
\* its first remote call, which needs the interface
TaskStart(f) ==
    /\ BagIn(f, tasks)
    /\ f.pc = "created"
    /\ tasks' = IF systemd_manager_interface = "set"
                THEN Resume(tasks, f, NewFrame(f.proc, f.owner))
                ELSE Drop(tasks, f)
    /\ UNCHANGED <<unit_state, systemd_manager_interface, invocation, finished,
                   dbus_vars, journal_vars, main_vars>>

\* the global StateChanged signal reaches global_state_changed, which runs to
\* the first remote call of stop_handler()
GlobalSignal(state) ==
    /\ dbus_pc \in {"add_match", "listening"}
    /\ bus_connected
    /\ BagCardinality(tasks) < MaxTasks
    /\ IF state \notin NetworkManagerStateValues
       THEN \* NetworkManagerState(state) raises ValueError
            /\ ev' = IF handlers = "mock"
                     THEN [kind |-> "global", raw |-> state, valid |-> FALSE,
                           online |-> FALSE, was |-> glob_seen,
                           before |-> current_global_state, invoked |-> "none"]
                     ELSE ev
            /\ UNCHANGED <<current_global_state, tasks, glob_seen, run_stops>>
       ELSE LET online == state \in GLOBAL_ONLINE_STATE
                invokes == GlobalInvokes(GlobalChanged(current_global_state, online), online)
                stop == invokes = "stop_all"
            IN  /\ current_global_state' =
                        IF GlobalChanged(current_global_state, online)
                        THEN Recorded(current_global_state, online)
                        ELSE current_global_state
                /\ tasks' = IF /\ stop
                               /\ handlers = "mount_control"
                               /\ systemd_manager_interface = "set"
                            THEN Spawn(tasks, NewFrame("stop_mounts", "global"))
                            ELSE tasks
                /\ ev' = IF handlers = "mock"
                         THEN [kind |-> "global", raw |-> state, valid |-> TRUE,
                               online |-> online, was |-> glob_seen,
                               before |-> current_global_state,
                               invoked |-> invokes]
                         ELSE ev
                /\ glob_seen' = IF online THEN "online" ELSE "offline"
                /\ run_stops' = IF online THEN 0
                                ELSE IF stop THEN run_stops + 1 ELSE run_stops
    /\ UNCHANGED <<unit_state, systemd_manager_interface, invocation, finished, dbus_pc,
                   device_list, dev_seen, handlers, journal_vars, main_vars>>

\* no device is known yet
NoDevices == [x \in {} |-> TRUE]

\* the managed units all in the same ActiveState
UniformUnits == {[u \in ManagedUnits |-> a] : a \in ActiveStates}

\* DbusMonitoring.__init__ (lines 53-59) followed by the spawning of start()
DbusCreated(with) ==
    /\ dbus_pc = "get_interface"
    /\ device_list = NoDevices
    /\ current_global_state = <<>>
    /\ dev_seen = NoDevices
    /\ glob_seen = "unknown"
    /\ run_stops = 0
    /\ handlers = with
    /\ ev = [kind |-> "none"]

\* JournalctlMonitoring is not running
JournalOff ==
    /\ journal_pc = "off"
    /\ journal_log = <<>>
    /\ batch_stops = 0
    /\ jev = [kind |-> "none"]

\* main() has built MountControl and DbusMonitoring and started
\* DbusMonitoring.start; the journal monitor is left out
InitDbus ==
    /\ unit_state \in UniformUnits
    /\ systemd_manager_interface = "unset"
    /\ tasks = EmptyBag
    /\ invocation = NoInvocation
    /\ finished = NoRun
    /\ DbusCreated("mount_control")
    /\ JournalOff
    /\ MainOff

\* DbusMonitoring built with handlers that only record that they were
\* called, and started
InitSignals ==
    /\ unit_state = [u \in ManagedUnits |-> "inactive"]
    /\ systemd_manager_interface = "unset"
    /\ tasks = EmptyBag
    /\ invocation = NoInvocation
    /\ finished = NoRun
    /\ DbusCreated("mock")
    /\ JournalOff
    /\ MainOff

NextSignals ==
    \/ DbusGetInterface
    \/ DbusAddMatch
    \/ \E d \in DeviceIds, state \in DeviceSignalStates : DeviceSignal(d, state)
    \/ \E message \in OtherMessages : OtherMessage(message)
    \/ \E state \in GlobalSignalStates : GlobalSignal(state)

SpecSignals == InitSignals /\ [][NextSignals]_vars

\* signals of the device interface whose member is not StateChanged, as a
\* unicast or another match rule can bring them to the message handlers; the
\* first body element is compared with the online states whatever it stands for
ForeignDeviceMessages ==
    {[message_type |-> "SIGNAL",
      interface |-> "org.freedesktop.NetworkManager.Device",
      member |-> "PropertiesChanged",
      path |-> <<"org", "freedesktop", "NetworkManager", "Devices", d>>,
      body |-> <<state>>] :
        d \in DeviceIds, state \in {DeviceState.ACTIVATED, DeviceState.DISCONNECTED}}

\* DbusMonitoring with recording handlers, every kind of message reaching
\* device_state_changed
NextMessages ==
    \/ DbusGetInterface
    \/ DbusAddMatch
    \/ \E d \in DeviceIds, state \in DeviceSignalStates : DeviceSignal(d, state)
    \/ \E message \in OtherMessages \cup ForeignDeviceMessages : OtherMessage(message)
    \/ \E state \in GlobalSignalStates : GlobalSignal(state)

SpecMessages == InitSignals /\ [][NextMessages]_vars

NextDbus ==
    \/ AsyncInit
    \/ DbusGetInterface
    \/ DbusAddMatch
    \/ \E d \in DeviceIds, state \in DeviceSignalStates : DeviceSignal(d, state)
    \/ \E message \in OtherMessages : OtherMessage(message)
    \/ \E state \in GlobalSignalStates : GlobalSignal(state)
    \/ \E f \in BagToSet(tasks) : TaskStart(f)
    \/ \E f \in BagToSet(tasks) : CallReturns(f)
    \/ \E f \in BagToSet(tasks) : CallRaises(f)

SpecDbus == InitDbus /\ [][NextDbus]_vars

\* DbusMonitoring listening and driving an initialised MountControl, the
\* first automount down and every other unit active
InitRecovery ==
    /\ unit_state = [u \in ManagedUnits |->
                        IF u = AutomountUnit(list_of_mount[1]) THEN "inactive" ELSE "active"]
    /\ systemd_manager_interface = "set"
    /\ tasks = EmptyBag
    /\ invocation = NoInvocation
    /\ finished = NoRun
    /\ DbusCreated("mount_control")
    /\ JournalOff
    /\ MainOff

\* devices and the global state going online and offline while the recovery
\* procedures they start run
NextRecovery ==
    \/ DbusGetInterface
    \/ DbusAddMatch
    \/ \E d \in DeviceIds, state \in {DeviceState.ACTIVATED, DeviceState.DISCONNECTED} :
          DeviceSignal(d, state)
    \/ \E state \in {NetworkManagerState.GLOBAL, NetworkManagerState.DISCONNECTED} :
          GlobalSignal(state)
    \/ \E f \in BagToSet(tasks) : TaskStart(f)
    \/ \E f \in BagToSet(tasks) : CallReturns(f)
    \/ \E f \in BagToSet(tasks) : CallRaises(f)

SpecRecovery == InitRecovery /\ [][NextRecovery]_vars

(* ------------------------ JournalctlMonitoring -------------------------- *)

\* journal.LOG_WARNING (syslog priority; lower is more severe)
LOG_WARNING == 4

\* the reader's filters set in __init__: log_level(LOG_WARNING),
\* add_match(SYSLOG_IDENTIFIER="kernel"), this_boot()
ReaderMatches(entry) ==
    /\ entry.priority <= LOG_WARNING
    /\ entry.ident = "kernel"
    /\ entry.this_boot

\* str.startswith: message begins with prefix
StartsWith(message, prefix) ==
    /\ Len(message) >= Len(prefix)
    /\ SubSeq(message, 1, Len(prefix)) = prefix

\* the "in" of strings: needle occurs somewhere in message
Contains(message, needle) ==
    \E i \in 1..(Len(message) - Len(needle) + 1) :
        SubSeq(message, i, i + Len(needle) - 1) = needle

\* lines 50-51 joined by "or"
StallSignature_Either(message) ==
    \/ StartsWith(message, <<"CIFS: VFS:">>)
    \/ Contains(message, <<"has not responded">>)

\* the test of lines 49-52 on entry["MESSAGE"]; a message is a sequence of
\* pieces of text
StallSignature(message) ==
    /\ StartsWith(message, <<"CIFS: VFS:">>)
    /\ Contains(message, <<"has not responded">>)

\* a message that carries the stall signature
StallMessage == <<"CIFS: VFS:", " \\\\nas ", "has not responded">>

\* an entry of the current boot; at_start tells whether the entry was in the
\* journal before start() positioned the reader
Entry(ident, priority, message) ==
    [ident |-> ident, priority |-> priority, this_boot |-> TRUE, message |-> message,
     at_start |-> FALSE]

\* entries written while the program runs: the stall message from the kernel
\* at priority err (3), warning (4) and info (6) and from a program, and
\* kernel messages that miss the prefix, the substring, or have the prefix
\* elsewhere than at the start
JournalEntries ==
    {Entry("kernel", 3, StallMessage),
     Entry("kernel", 4, StallMessage),
     Entry("kernel", 6, StallMessage),
     Entry("mount.cifs", 3, StallMessage),
     Entry("kernel", 3, <<"CIFS: VFS:", " \\\\nas ", "reconnected">>),
     Entry("kernel", 3, <<"nfs: server nas ", "has not responded">>),
     Entry("kernel", 3, <<"has not responded", "CIFS: VFS:">>)}

\* what the journal can hold when the program starts
PreExisting ==
    {<<>>}
    \cup {<<[Entry("kernel", 3, StallMessage) EXCEPT !.this_boot = b, !.at_start = TRUE]>> :
                b \in BOOLEAN}

\* seek_tail() without get_previous(): the reader is left before the last
\* entry, which the first get_next() returns
AfterSeek_BeforeLast(log) == IF log = <<>> THEN <<>> ELSE <<log[Len(log)]>>

\* what is left to read once seek_tail() and get_previous() have put the
\* reader on the last entry there is: nothing
AfterSeek(log) == <<>>

\* something writes entry to the journal while the monitor runs (what was
\* written before start() positioned the reader is in PreExisting)
JournalAppend(entry) ==
    /\ journal_pc \notin {"off", "crashed", "seek_tail", "cancelled", "exited"}
    /\ Len(journal_log) < MaxPending
    /\ batch_stops < MaxPending
    /\ journal_log' = Append(journal_log, entry)
    /\ UNCHANGED <<engine_vars, dbus_vars, journal_pc, batch_stops, jev, main_vars>>

\* JournalctlMonitoring.start, lines 42-43: seek_tail() and get_previous()
\* put the reader behind every entry there is
JournalStart ==
    /\ journal_pc = "seek_tail"
    /\ LoopRuns
    /\ journal_pc' = IF journal_running THEN "wait" ELSE "exited"
    /\ journal_log' = AfterSeek(journal_log)
    /\ jev' = [kind |-> "start", skipped |-> journal_log]
    /\ UNCHANGED <<engine_vars, dbus_vars, batch_stops, main_vars>>

\* line 47: journal.wait(1) returns in the executor, with or without new
\* entries, and the for loop of line 48 begins
JournalWait ==
    /\ journal_pc = "wait"
    /\ LoopRuns
    /\ journal_pc' = "drain"
    /\ batch_stops' = 0
    /\ UNCHANGED <<engine_vars, dbus_vars, journal_log, jev, main_vars>>

\* lines 48-59: the for loop takes the next entry, if any; the reader skips
\* an entry its filters reject; on the stall signature stop_handler() is
\* awaited, which runs to its first remote call
JournalNext ==
    /\ journal_pc = "drain"
    /\ LoopRuns
    /\ BagCardinality(tasks) < MaxTasks
    /\ IF journal_log = <<>>
       THEN /\ journal_pc' = "sleep"
            /\ UNCHANGED <<tasks, journal_log, batch_stops, jev>>
       ELSE LET entry == Head(journal_log)
                stop == ReaderMatches(entry) /\ StallSignature(entry.message)
            IN  /\ journal_log' = Tail(journal_log)
                /\ jev' = [kind |-> "entry", entry |-> entry, invoked |-> stop]
                /\ batch_stops' = IF stop THEN batch_stops + 1 ELSE batch_stops
                /\ journal_pc' =
                        IF ~stop THEN "drain"
                        ELSE IF systemd_manager_interface = "set" THEN "stop_handler"
                        ELSE "crashed"
                /\ tasks' = IF stop /\ systemd_manager_interface = "set"
                            THEN Spawn(tasks, NewFrame("stop_mounts", "journal"))
                            ELSE tasks
    /\ UNCHANGED <<unit_state, systemd_manager_interface, invocation, finished, dbus_vars,
                   main_vars>>

\* lines 60 and 46: asyncio.sleep(0.5) is over and the while loop tests
\* self.running
JournalSleep ==
    /\ journal_pc = "sleep"
    /\ LoopRuns
    /\ journal_pc' = IF journal_running THEN "wait" ELSE "exited"
    /\ UNCHANGED <<engine_vars, dbus_vars, journal_log, batch_stops, jev, main_vars>>

\* DbusMonitoring is not running
DbusOff ==
    /\ dbus_pc = "off"
    /\ device_list = NoDevices
    /\ current_global_state = <<>>
    /\ dev_seen = NoDevices
    /\ glob_seen = "unknown"
    /\ run_stops = 0
    /\ handlers = "mount_control"
    /\ ev = [kind |-> "none"]

\* main() has built MountControl and JournalctlMonitoring and
\* started JournalctlMonitoring.start; the connectivity monitor is left out
InitJournal ==
    /\ unit_state \in UniformUnits
    /\ systemd_manager_interface = "unset"
    /\ tasks = EmptyBag
    /\ invocation = NoInvocation
    /\ finished = NoRun
    /\ DbusOff
    /\ journal_pc = "seek_tail"
    /\ journal_log \in PreExisting
    /\ batch_stops = 0
    /\ jev = [kind |-> "none"]
    /\ MainOff

NextJournal ==
    \/ AsyncInit
    \/ \E entry \in JournalEntries : JournalAppend(entry)
    \/ JournalStart
    \/ JournalWait
    \/ JournalNext
    \/ JournalSleep
    \/ \E f \in BagToSet(tasks) : CallReturns(f)
    \/ \E f \in BagToSet(tasks) : CallRaises(f)

SpecJournal == InitJournal /\ [][NextJournal]_vars

(* -------------------------------- main ---------------------------------- *)

\* the positions in which DbusMonitoring.start has not ended
DbusLoopPcs == {"get_interface", "add_match", "listening"}

\* the positions in which JournalctlMonitoring.start has not ended
JournalLoopPcs == {"seek_tail", "wait", "drain", "stop_handler", "sleep"}

\* DbusMonitoring.start, lines 75-76: asyncio.sleep(1) is over and the while
\* loop tests self.running
DbusSleep ==
    /\ dbus_pc = "listening"
    /\ LoopRuns
    /\ dbus_pc' = IF dbus_running THEN "listening" ELSE "exited"
    /\ UNCHANGED <<engine_vars, device_list, current_global_state, dev_seen, glob_seen,
                   run_stops, handlers, ev, journal_vars, main_vars>>

\* DbusMonitoring.stop: the flag is cleared and the bus disconnected
DbusStop ==
    /\ dbus_running' = FALSE
    /\ bus_connected' = FALSE

\* JournalctlMonitoring.stop: the flag is cleared
JournalStop == journal_running' = FALSE

\* the external stop signal: the task of main() is cancelled while it awaits
\* asyncio.gather (line 48), which asks both monitor tasks to cancel
Cancel ==
    /\ main_pc = "gather"
    /\ main_pc' = "cancelling"
    /\ UNCHANGED <<engine_vars, dbus_vars, journal_vars, bus_connected, dbus_running,
                   journal_running>>

\* CancelledError is thrown into DbusMonitoring.start at the await it is
\* suspended on; nothing catches it
DbusCancelled ==
    /\ main_pc = "cancelling"
    /\ dbus_pc \in DbusLoopPcs
    /\ dbus_pc' = "cancelled"
    /\ UNCHANGED <<engine_vars, device_list, current_global_state, dev_seen, glob_seen,
                   run_stops, handlers, ev, journal_vars, main_vars>>

\* CancelledError is thrown into JournalctlMonitoring.start at the await it
\* is suspended on, the stop_handler() it may be awaiting included
JournalCancelled ==
    /\ main_pc = "cancelling"
    /\ journal_pc \in JournalLoopPcs
    /\ journal_pc' = "cancelled"
    /\ tasks' = [f \in {g \in BagToSet(tasks) : g.owner # "journal"} |-> tasks[f]]
    /\ UNCHANGED <<unit_state, systemd_manager_interface, invocation, finished, dbus_vars,
                   journal_log, batch_stops, jev, main_vars>>

\* asyncio.gather hands the exception that ended JournalctlMonitoring.start
\* to main(), whose except clause (line 49) does not catch it
MainRaises ==
    /\ main_pc = "gather"
    /\ journal_pc = "crashed"
    /\ main_pc' = "raised"
    /\ UNCHANGED <<engine_vars, dbus_vars, journal_vars, bus_connected, dbus_running,
                   journal_running>>

\* lines 49-52: both monitor tasks have ended cancelled, asyncio.gather raises
\* CancelledError in main(), and the except clause stops both monitors
MainExcept ==
    /\ main_pc = "cancelling"
    /\ dbus_pc \notin DbusLoopPcs
    /\ journal_pc \notin JournalLoopPcs
    /\ DbusStop
    /\ JournalStop
    /\ main_pc' = "stopped"
    /\ UNCHANGED <<engine_vars, dbus_vars, journal_vars>>

\* line 57: main() has ended, asyncio.run cancels every task that is left
\* and closes the loop
LoopClose ==
    /\ main_pc \in {"stopped", "raised"}
    /\ main_pc' = "closed"
    /\ tasks' = EmptyBag
    /\ dbus_pc' = IF dbus_pc \in DbusLoopPcs THEN "cancelled" ELSE dbus_pc
    /\ journal_pc' = IF journal_pc \in JournalLoopPcs THEN "cancelled" ELSE journal_pc
    /\ UNCHANGED <<unit_state, systemd_manager_interface, invocation, finished,
                   device_list, current_global_state, dev_seen, glob_seen, run_stops,
                   handlers, ev, journal_log, batch_stops, jev, bus_connected,
                   dbus_running, journal_running>>

\* main() has built the three objects (lines 29-42), created both monitor
\* tasks (lines 46-47) and awaits asyncio.gather
InitMain ==
    /\ unit_state = [u \in ManagedUnits |-> "inactive"]
    /\ systemd_manager_interface = "unset"
    /\ tasks = EmptyBag
    /\ invocation = NoInvocation
    /\ finished = NoRun
    /\ DbusCreated("mount_control")
    /\ journal_pc = "seek_tail"
    /\ journal_log = <<>>
    /\ batch_stops = 0
    /\ jev = [kind |-> "none"]
    /\ main_pc = "gather"
    /\ bus_connected = TRUE
    /\ dbus_running = TRUE
    /\ journal_running = TRUE

\* the whole program: one device going online and offline, the global state
\* going online and offline, stall entries in the journal, and the stop signal
NextMain ==
    \/ AsyncInit
    \/ DbusGetInterface
    \/ DbusAddMatch
    \/ DbusSleep
    \/ \E state \in {DeviceState.ACTIVATED, DeviceState.DISCONNECTED} :
          DeviceSignal(DeviceIdNames[1], state)
    \/ \E state \in {NetworkManagerState.GLOBAL, NetworkManagerState.DISCONNECTED} :
          GlobalSignal(state)
    \/ \E f \in BagToSet(tasks) : TaskStart(f)
    \/ \E f \in BagToSet(tasks) : CallReturns(f)
    \/ \E f \in BagToSet(tasks) : CallRaises(f)
    \/ JournalAppend(Entry("kernel", LOG_WARNING, StallMessage))
    \/ JournalStart
    \/ JournalWait
    \/ JournalNext
    \/ JournalSleep
    \/ Cancel
    \/ DbusCancelled
    \/ JournalCancelled
    \/ MainRaises
    \/ MainExcept
    \/ LoopClose

SpecMain == InitMain /\ [][NextMain]_vars

(* --------------------- claims about the engine -------------------------- *)

\* the positions of log whose call is op on unit
CallsOf(log, op, unit) == {j \in 1..Len(log) : log[j].op = op /\ log[j].unit = unit}

\* the positions of log holding a mutating unit call
MutatingCalls(log) == {j \in 1..Len(log) : log[j].op \in {"reset_failed", "stop", "start"}}

\* a log without the outcomes: the sequence of (op, unit) pairs
OpsOf(log) == [j \in 1..Len(log) |-> [op |-> log[j].op, unit |-> log[j].unit]]

\* the caller's last completed invocation was a restart_all_mounts
RestartRun == finished.proc = "restart_all_mounts"

\* the caller's last completed invocation was a stop_mounts
StopRun == finished.proc = "stop_mounts"

\* the invocation before the last one was a restart_all_mounts too
SecondRestartInARow == RestartRun /\ finished.prev.proc = "restart_all_mounts"

\* every configured automount was active when the last invocation began
AllAutomountsActive ==
    \A n \in 1..NumMounts : finished.pre[AutomountUnit(list_of_mount[n])] = "active"

\* C3: stop_all attempts stop on <name>.mount for every configured name,
\* also when the stop of an earlier name has failed.
C3_StopAttemptsEveryMount ==
    StopRun =>
        \A n \in 1..NumMounts :
            CallsOf(finished.calls, "stop", MountUnit(list_of_mount[n])) # {}

TwoReadsPerMount ==
    [j \in 1..(2 * NumMounts) |->
        IF j % 2 = 1
        THEN [op |-> "status", unit |-> MountUnit(list_of_mount[(j + 1) \div 2])]
        ELSE [op |-> "status", unit |-> AutomountUnit(list_of_mount[j \div 2])]]

RECURSIVE ReadsOf(_)
ReadsOf(log) ==
    IF log = <<>> THEN <<>>
    ELSE IF Head(log).op = "status"
         THEN <<[op |-> "status", unit |-> Head(log).unit]>> \o ReadsOf(Tail(log))
         ELSE ReadsOf(Tail(log))

SomeAutomountReadNonActive(log) ==
    \E j \in 1..Len(log) :
        /\ log[j].op = "status" /\ log[j].ok /\ log[j].read # "active"
        /\ \E n \in 1..NumMounts : log[j].unit = AutomountUnit(list_of_mount[n])

\* C6: one restart_all stops network-online.target and
\* NetworkManager-wait-online.service exactly once each if it read some
\* automount as non-active, and not at all if it read every automount as active.
C6_TargetsStoppedOnceIffNonActive ==
    RestartRun =>
        LET log == finished.calls
            want == IF SomeAutomountReadNonActive(log) THEN 1 ELSE 0
        IN  /\ Cardinality(CallsOf(log, "stop", NetworkOnlineTarget)) = want
            /\ Cardinality(CallsOf(log, "stop", WaitOnlineService)) = want

\* the calls the claimed first phase makes for the names from n on, given the
\* unit states pre at invocation
RECURSIVE ExpectedCollect(_, _)
ExpectedCollect(pre, n) ==
    IF n > NumMounts THEN <<>>
    ELSE LET name == list_of_mount[n]
         IN  <<[op |-> "status", unit |-> MountUnit(name)]>>
             \o (IF pre[MountUnit(name)] = "failed"
                 THEN <<[op |-> "reset_failed", unit |-> MountUnit(name)]>>
                 ELSE <<>>)
             \o <<[op |-> "status", unit |-> AutomountUnit(name)]>>
             \o ExpectedCollect(pre, n + 1)

\* the calls the claimed second phase makes for the non-active automounts
\* among the names from n on
RECURSIVE ExpectedRestart(_, _)
ExpectedRestart(pre, n) ==
    IF n > NumMounts THEN <<>>
    ELSE LET name == list_of_mount[n]
         IN  (IF pre[AutomountUnit(name)] # "active"
              THEN <<[op |-> "reset_failed", unit |-> AutomountUnit(name)],
                     [op |-> "start", unit |-> AutomountUnit(name)]>>
              ELSE <<>>)
             \o ExpectedRestart(pre, n + 1)

\* the whole claimed call sequence of one restart_all
ExpectedCalls(pre) ==
    ExpectedCollect(pre, 1)
        \o (IF \E n \in 1..NumMounts : pre[AutomountUnit(list_of_mount[n])] # "active"
            THEN <<[op |-> "stop", unit |-> NetworkOnlineTarget],
                   [op |-> "stop", unit |-> WaitOnlineService]>>
                 \o ExpectedRestart(pre, 1)
            ELSE <<>>)

\* C9: when all unit calls succeed, the calls of one restart_all are, per name
\* in list order, status(mount), reset_failed(mount) iff it was failed,
\* status(automount); then, if some automount was non-active, the two target
\* stops, then per recorded name reset_failed(automount), start(automount).
C9_CallSequence ==
    (RestartRun /\ finished.outcome = "returned")
        => OpsOf(finished.calls) = ExpectedCalls(finished.pre)

\* C9 witness: a restart_all has returned after resetting a failed mount and
\* restarting every configured automount.
C9_Witness ==
    /\ RestartRun
    /\ finished.outcome = "returned"
    /\ Len(finished.calls) >= 4 * NumMounts + 3
    /\ CallsOf(finished.calls, "reset_failed", MountUnit(list_of_mount[1])) # {}

\* the restart_all invocation attempted op on unit
Attempted(log, op, unit) == CallsOf(log, op, unit) # {}

\* C11: within restart_all a failed unit operation does not abort the rest of
\* the sequence: every configured mount and automount is still examined, and
\* start(<name>.automount) is attempted whenever reset_failed(<name>.automount)
\* was, also when that reset_failed has failed.
C11_RestartContinuesAfterFailure ==
    RestartRun =>
        LET log == finished.calls
        IN  /\ \A n \in 1..NumMounts :
                  /\ Attempted(log, "status", MountUnit(list_of_mount[n]))
                  /\ Attempted(log, "status", AutomountUnit(list_of_mount[n]))
            /\ \A n \in 1..NumMounts :
                  Attempted(log, "reset_failed", AutomountUnit(list_of_mount[n]))
                      => Attempted(log, "start", AutomountUnit(list_of_mount[n]))

\* the positions of log holding a status read
StatusReads(log) == {j \in 1..Len(log) : log[j].op = "status"}

\* C18 as claimed: within one restart_all no status read is issued after a
\* mutating unit call: every status read precedes the first reset_failed,
\* stop or start.
C18_NoReadAfterMutation ==
    RestartRun =>
        LET log == finished.calls
        IN  \A i \in MutatingCalls(log) : \A j \in StatusReads(log) : j < i

\* C18 amended: within one restart_all no status read is issued after a stop,
\* a start, or a reset_failed on an automount; the only mutating calls that
\* precede a status read are reset_failed on a <name>.mount whose status was
\* read as failed by the call just before.
C18_NoReadAfterTargetStop ==
    RestartRun =>
        LET log == finished.calls
        IN  \A i \in MutatingCalls(log) :
                (\E j \in StatusReads(log) : j > i) =>
                    /\ log[i].op = "reset_failed"
                    /\ \E n \in 1..NumMounts : log[i].unit = MountUnit(list_of_mount[n])
                    /\ i > 1
                    /\ log[i - 1] = [op |-> "status", unit |-> log[i].unit,
                                     ok |-> TRUE, read |-> "failed"]

\* C18 witness: a restart_all has returned that reset a failed mount during
\* its reads, then stopped the targets and started an automount, all of that
\* after its last status read.
C18_Witness ==
    /\ RestartRun
    /\ finished.outcome = "returned"
    /\ LET log == finished.calls
       IN  /\ \E i \in CallsOf(log, "reset_failed", MountUnit(list_of_mount[1])) :
                 \E j \in StatusReads(log) : j > i
           /\ \E i \in CallsOf(log, "stop", NetworkOnlineTarget) :
                 \A j \in StatusReads(log) : j < i
           /\ \E n \in 1..NumMounts :
                 CallsOf(log, "start", AutomountUnit(list_of_mount[n])) # {}

C1_OneStopPerOfflineRun ==
    /\ glob_seen = "offline" => run_stops = 1
    /\ glob_seen # "offline" => run_stops = 0
    /\ (ev.kind = "global" /\ ev.invoked = "stop_all")
          => (ev.valid /\ ~ev.online /\ ev.was # "offline")

\* C1 witness: after an online state, a second offline signal of another raw
\* value than the run's first has been delivered and has invoked nothing.
C1_Witness ==
    /\ ev.kind = "global"
    /\ ev.raw = NetworkManagerState.DISCONNECTED
    /\ ev.was = "offline"
    /\ ev.invoked = "none"
    /\ run_stops = 1
    /\ current_global_state = <<FALSE>>

\* C2: a device signal schedules restart_all exactly when it is an
\* offline-to-online edge of its device (the device's signal before it, if
\* any, was offline); a signal that leaves the device's derived boolean
\* unchanged schedules nothing.
C2_RestartPerOnlineEdge ==
    ev.kind = "device" =>
        (ev.invoked = "restart_all" <=> (ev.online /\ ev.was # "online"))

\* C2 witness: a device has received a repeated online signal, which
\* scheduled nothing, while another device is offline.
C2_Witness ==
    /\ ev.kind = "device"
    /\ ev.online
    /\ ev.was = "online"
    /\ ev.invoked = "none"
    /\ \E d \in DOMAIN dev_seen : d # ev.id /\ ~dev_seen[d]

\* the recovery procedures between their first and their last unit call
InFlight == {f \in BagToSet(tasks) : f.pc # "created"}

\* how many of them there are
InFlightCount == BagCardinality([f \in InFlight |-> tasks[f]])

\* C10: restart_all never runs concurrently with another restart_all or with
\* a stop_all: while a restart_all is between its first and its last unit
\* call, no other recovery procedure is.
C10_RestartRunsAlone ==
    (\E f \in InFlight : f.proc = "restart_all_mounts") => InFlightCount = 1

\* a restart_all is between its first and its last unit call
RestartInFlight == \E f \in InFlight : f.proc = "restart_all_mounts"

\* the step is an online/offline edge of device d, and it has updated the
\* device-state map and, for an online edge, created a task for restart_all
DeviceEdgeTakesEffect(d) ==
    Seen(dev_seen', d) # Seen(dev_seen, d) =>
        /\ d \in DOMAIN device_list'
        /\ device_list'[d] = dev_seen'[d]
        /\ tasks' = IF dev_seen'[d]
                    THEN tasks (+) SetToBag({NewTask("restart_all_mounts")})
                    ELSE tasks

\* the step is an edge of the global state, and it has updated the recorded
\* global state and, for an offline edge, started stop_all
GlobalEdgeTakesEffect ==
    glob_seen' # glob_seen =>
        /\ current_global_state' = <<glob_seen' = "online">>
        /\ tasks' = IF glob_seen' = "offline" /\ systemd_manager_interface = "set"
                    THEN tasks (+) SetToBag({NewFrame("stop_mounts", "global")})
                    ELSE tasks

\* C17: the device-signal handler does not wait for the restart_all it
\* spawns: while a restart_all is suspended on a unit call, every further
\* device edge and global edge is handled at once, its state update made and
\* its trigger fired.
C17_SignalsHandledDuringRestart ==
    [][RestartInFlight =>
          /\ \A d \in DeviceIds : DeviceEdgeTakesEffect(d)
          /\ GlobalEdgeTakesEffect]_vars

\* C17 witness: a restart_all is suspended on a mutating unit call while a
\* second restart_all, created by another device's online signal, waits to
\* start, and the global state has been recorded offline.
C17_Witness ==
    /\ \E f \in InFlight :
          /\ f.proc = "restart_all_mounts"
          /\ f.pc \in {"stop_target", "stop_wait_online", "automount_reset", "automount_start"}
    /\ \E g \in BagToSet(tasks) : g.pc = "created"
    /\ \A d \in DeviceIds : d \in DOMAIN device_list /\ device_list[d]
    /\ current_global_state = <<FALSE>>

(* ----------------------- claims about the log monitor ------------------- *)

\* C7: within one drain of the journal, stop_all is invoked at most once,
\* however many entries of the batch match the stall signature.
C7_OneStopPerBatch == batch_stops <= 1

\* C8 as claimed: an entry the monitor reads triggers stop_all if and only if
\* it comes from the kernel, its message starts with "CIFS: VFS:" and its
\* message contains "has not responded", whatever its priority.
C8_TriggersIffKernelStall ==
    jev.kind = "entry" =>
        (jev.invoked <=>
            /\ jev.entry.ident = "kernel"
            /\ StartsWith(jev.entry.message, <<"CIFS: VFS:">>)
            /\ Contains(jev.entry.message, <<"has not responded">>))

\* C8 amended: an entry the monitor reads triggers stop_all if and only if it
\* comes from the kernel, its priority is warning or more severe, its message
\* starts with "CIFS: VFS:" and its message contains "has not responded".
C8_TriggersIffSevereKernelStall ==
    jev.kind = "entry" =>
        (jev.invoked <=>
            /\ jev.entry.ident = "kernel"
            /\ jev.entry.priority <= 4
            /\ StartsWith(jev.entry.message, <<"CIFS: VFS:">>)
            /\ Contains(jev.entry.message, <<"has not responded">>))

\* C8 witness: the monitor has passed a kernel entry that carries the stall
\* signature at priority info without invoking stop_all, after one drain in
\* which a stall entry did invoke it.
C8_Witness ==
    /\ jev.kind = "entry"
    /\ jev.entry.ident = "kernel"
    /\ jev.entry.priority = 6
    /\ StallSignature(jev.entry.message)
    /\ ~jev.invoked
    /\ batch_stops = 1

\* C12: a failure inside the log monitor's handling of an entry (stop_all
\* raising) is caught there and never terminates the monitor loop: the loop
\* of JournalctlMonitoring.start is never ended by an exception.
C12_MonitorLoopSurvivesFailure == journal_pc # "crashed"

\* C13: a signal carrying a state value that is no member of its enumeration
\* is ignored: a global one leaves the recorded global state unchanged, a
\* device one leaves the device-state map unchanged, and neither invokes
\* stop_all or restart_all.
C13_UnknownStateIgnored ==
    /\ (ev.kind = "global" /\ ev.raw \notin NetworkManagerStateValues)
          => (current_global_state = ev.before /\ ev.invoked = "none")
    /\ (ev.kind = "device" /\ ev.raw \notin DeviceStateValues)
          => (device_list = ev.before /\ ev.invoked = "none")

\* the message is the StateChanged signal of a network device
IsStateChangedSignal(message) ==
    /\ message.message_type = "SIGNAL"
    /\ message.interface = "org.freedesktop.NetworkManager.Device"
    /\ message.member = "StateChanged"

\* C14: a message delivered to device_state_changed that is not a device
\* StateChanged signal (no signal, a signal of another interface, or a signal
\* of the device interface with another member) leaves the device-state map
\* unchanged, schedules no restart_all and is returned as not consumed.
C14_OtherMessagesIgnored ==
    (ev.kind = "other" /\ ~IsStateChangedSignal(ev.message))
        => (device_list = ev.before /\ ev.invoked = "none" /\ ~ev.consumed)

C16_DisconnectAfterQuiescence ==
    ~bus_connected =>
        /\ dbus_pc \notin DbusLoopPcs
        /\ journal_pc \notin JournalLoopPcs
        /\ InFlight = {}

\* C20, its safety half: while a monitor's running flag stays true its loop
\* never exits on its own: a loop that has ended without being cancelled,
\* by leaving its while loop or through an exception, has its flag false.
C20_LoopEndsOnlyWhenStopped ==
    /\ dbus_pc = "exited" => ~dbus_running
    /\ journal_pc \in {"exited", "crashed"} => ~journal_running

\* the step starts a stop_all or a restart_all, which runs to its first unit
\* operation: the journal loop has read a stall entry, the global handler has
\* seen the state turn offline, or a task created by a device signal gets to
\* run
RecoveryBegins ==
    \/ /\ journal_pc = "drain"
       /\ journal_pc' \in {"stop_handler", "crashed"}
    \/ /\ handlers = "mount_control"
       /\ current_global_state # <<FALSE>>
       /\ current_global_state' = <<FALSE>>
    \/ /\ main_pc' # "closed"
       /\ \E f \in BagToSet(tasks) :
             /\ f.pc = "created"
             /\ CopiesIn(f, tasks') < CopiesIn(f, tasks)

\* C21: no unit operation is issued before MountControl's service-manager
\* interface has been initialised: under every interleaving of the
\* initialisation task with the monitors' first events, the interface is set
\* when a stop_all or restart_all first uses it.
C21_InterfaceSetBeforeFirstUse ==
    [][RecoveryBegins => systemd_manager_interface = "set"]_vars

\* the step starts a stop_all from the global handler
GlobalStopStarts ==
    CopiesIn(NewFrame("stop_mounts", "global"), tasks') >
        CopiesIn(NewFrame("stop_mounts", "global"), tasks)

\* C22: the recorded global state is set to offline before stop_all is
\* started, so an offline signal delivered while that stop_all is in flight,
\* or after it has failed, starts no second stop_all: the global handler
\* starts a stop_all only in a step that records offline and whose last
\* signal before it, if any, was an online one, and in a run of offline
\* signals exactly one stop_all has been started.
C22_NoSecondStopWithoutOnline ==
    /\ [](glob_seen = "offline" => (current_global_state = <<FALSE>> /\ run_stops = 1))
    /\ [][GlobalStopStarts =>
            /\ glob_seen # "offline"
            /\ glob_seen' = "offline"
            /\ current_global_state' = <<FALSE>>]_vars

\* C22 witness: the stop_all of the current offline run has stopped the first
\* mount and is suspended on the stop of the next one, offline is recorded,
\* and a further offline signal can be delivered.
C22_Witness ==
    /\ glob_seen = "offline"
    /\ current_global_state = <<FALSE>>
    /\ run_stops = 1
    /\ \E f \in InFlight : f.proc = "stop_mounts" /\ f.owner = "global" /\ f.idx > 1
    /\ ENABLED GlobalSignal(NetworkManagerState.DISCONNECTED)

\* the last event was the first signal of device ev.id: it was an edge, it
\* scheduled restart_all iff its state is in the device online set, and it
\* recorded the state
FirstDeviceSignalIsEdge ==
    (ev.kind = "device" /\ ev.was = "unknown") =>
        /\ ev.id \notin DOMAIN ev.before
        /\ device_list = SetDevice(ev.before, ev.id, ev.online)
        /\ ev.invoked = "restart_all" <=> ev.online
        /\ ~ev.online => ev.invoked = "none"

\* C23 as claimed: transitions out of the initial unknown state count as
\* edges: the first global-state signal invokes stop_all iff its state is
\* outside the online set, the first signal of a device schedules
\* restart_all iff its state is in the device online set, and a first global
\* online signal and a first device offline signal record the state and
\* trigger nothing.
C23_FirstSignalIsEdge ==
    /\ (ev.kind = "global" /\ ev.was = "unknown") =>
          /\ ev.before = <<>>
          /\ ev.invoked = "stop_all" <=> ev.raw \notin GLOBAL_ONLINE_STATE
          /\ ev.raw \in GLOBAL_ONLINE_STATE =>
                (current_global_state = <<TRUE>> /\ ev.invoked = "none")
    /\ FirstDeviceSignalIsEdge

\* C23 amended: the first global-state signal that carries an enumerated
\* state invokes stop_all iff that state is outside the online set, and
\* records the state either way; the first signal of a device schedules
\* restart_all iff its state is in the device online set. A global signal
\* with a value that is not enumerated invokes nothing and leaves the state
\* unknown.
C23_FirstEnumeratedSignalIsEdge ==
    /\ (ev.kind = "global" /\ ev.was = "unknown") =>
          /\ ev.before = <<>>
          /\ IF ev.raw \in NetworkManagerStateValues
             THEN /\ current_global_state = <<ev.raw \in GLOBAL_ONLINE_STATE>>
                  /\ ev.invoked = "stop_all" <=> ev.raw \notin GLOBAL_ONLINE_STATE
                  /\ ev.raw \in GLOBAL_ONLINE_STATE => ev.invoked = "none"
             ELSE /\ current_global_state = <<>>
                  /\ glob_seen = "unknown"
                  /\ ev.invoked = "none"
    /\ FirstDeviceSignalIsEdge

\* C23 witness: the first enumerated global signal, an offline one, has
\* invoked stop_all and recorded offline, while a device is recorded offline.
C23_Witness ==
    /\ ev.kind = "global"
    /\ ev.was = "unknown"
    /\ ev.raw = NetworkManagerState.CONNECTING
    /\ ev.invoked = "stop_all"
    /\ current_global_state = <<FALSE>>
    /\ \E d \in DOMAIN device_list : ~device_list[d]

\* the step is the handling of a global-state signal
GlobalSignalHandled == ev'.kind = "global" /\ (ev.kind # "global" \/ ev' # ev)

\* the step is the handling of a device-state signal
DeviceSignalHandled == ev'.kind = "device" /\ (ev.kind # "device" \/ ev' # ev)

\* C24: the two connectivity state machines are independent: a global-state
\* signal never modifies the device-state map and never schedules
\* restart_all (an offline-to-online transition of the global state triggers
\* nothing), and a device-state signal never modifies the recorded global
\* state and never invokes stop_all (a device going offline triggers nothing).
C24_StateMachinesIndependent ==
    /\ [][GlobalSignalHandled =>
            /\ device_list' = device_list
            /\ ev'.invoked # "restart_all"
            /\ ev'.online => ev'.invoked = "none"
            /\ tasks' = tasks]_vars
    /\ [][DeviceSignalHandled =>
            /\ current_global_state' = current_global_state
            /\ ev'.invoked # "stop_all"
            /\ ~ev'.online => ev'.invoked = "none"
            /\ tasks' = tasks]_vars

\* C24 witness: the global state has gone from offline to online, which
\* triggered nothing, with one device recorded online and one offline in the
\* device-state map.
C24_Witness ==
    /\ ev.kind = "global"
    /\ ev.was = "offline"
    /\ ev.online
    /\ ev.invoked = "none"
    /\ current_global_state = <<TRUE>>
    /\ \E d \in DOMAIN device_list : device_list[d]
    /\ \E d \in DOMAIN device_list : ~device_list[d]

====
